---- MODULE Spec2Model ----
(***************************************************************************)
(* A model of laserfinity.py: the command line tool that lays out a        *)
(* Gridfinity baseplate (a grid of rounded squares inside a drawer-sized   *)
(* border) and writes it as an SVG file.                                   *)
(*                                                                         *)
(* Numbers.  The program computes with Python floats.  The model computes  *)
(* with the exact rationals those floats approximate: a number is a pair   *)
(* <<n, d>> in lowest terms with d > 0.  Rounding error of the binary      *)
(* floating point format is therefore outside the model.                   *)
(*                                                                         *)
(* Strings.  A Python str is a sequence of one-character strings.          *)
(***************************************************************************)
EXTENDS Integers, Sequences, FiniteSets, TLC

VARIABLES
    argv,        \* the command line: a sequence of [opt, val] pairs
    pc,          \* position of the process in main / create_gridfinity_baseplate_svg
    args,        \* argparse namespace: drawer_width, drawer_height (NoneArg or a number)
    exit_code,   \* <<>> while the process runs, <<status>> once it has exited
    error,       \* the exception that ended the process, "none" otherwise
    stdout,      \* lines printed, in order
    layout,      \* locals of create_gridfinity_baseplate_svg computed at lines 42-52
    x, y,        \* loop variables of lines 66-67
    dwg,         \* elements added to the svgwrite.Drawing, in order
    files,       \* documents written by dwg.save(), in order
    conv_in,     \* convert_to_inches on its own: the dimension string handed to it
    conv_out     \* convert_to_inches on its own: what the call produced

vars == <<argv, pc, args, exit_code, error, stdout, layout, x, y, dwg, files,
          conv_in, conv_out>>

\* Python's None and a float, as values of one shape
NoneArg == [is_none |-> TRUE, val |-> <<0, 1>>]

Num(v) == [is_none |-> FALSE, val |-> v]

(***************************************************************************)
(* Bounds of the model.                                                    *)
(***************************************************************************)
MaxInch == 7          \* whole inches on the command line: 0..MaxInch
MaxWhole == 12        \* integer part of a numeric part handed to convert_to_inches
MaxNum == 3           \* numerator of a mixed number
MaxDen == 4           \* denominator of a mixed number
MaxFrac == 2          \* digits after the decimal point of a plain decimal

(***************************************************************************)
(* Exact rational arithmetic standing for Python's float arithmetic.       *)
(***************************************************************************)
Abs(i) == IF i < 0 THEN -i ELSE i

RECURSIVE GCD(_, _)
GCD(a, b) == IF b = 0 THEN a ELSE GCD(b, a % b)

Rat(n, d) ==
    LET g == GCD(Abs(n), Abs(d))
        s == IF d < 0 THEN -1 ELSE 1
    IN  <<(s * n) \div g, (s * d) \div g>>

FromInt(i) == <<i, 1>>

RAdd(a, b) == Rat(a[1] * b[2] + b[1] * a[2], a[2] * b[2])

RSub(a, b) == Rat(a[1] * b[2] - b[1] * a[2], a[2] * b[2])

RMul(a, b) == Rat(a[1] * b[1], a[2] * b[2])

RDiv(a, b) == Rat(a[1] * b[2], a[2] * b[1])

RLess(a, b) == a[1] * b[2] < b[1] * a[2]

RLeq(a, b) == a[1] * b[2] <= b[1] * a[2]

\* a // b followed by int(): the floor of the quotient
RFloorDiv(a, b) == LET q == RDiv(a, b) IN q[1] \div q[2]

Max(a, b) == IF a >= b THEN a ELSE b

(***************************************************************************)
(* Module constants, lines 6-11.                                           *)
(***************************************************************************)
top_unit_size_mm == 42

base_unit_size_mm == Rat(371, 10)

corner_radius_mm == Rat(16, 10)

mm_per_inch == Rat(254, 10)

dpi == 96

hairline_stroke_mm == Rat(1, 100)

mm_to_px(mm) == RMul(mm, RDiv(FromInt(dpi), mm_per_inch))

(***************************************************************************)
(* Characters and the str methods the program uses.                        *)
(***************************************************************************)
DigitChars == <<"0", "1", "2", "3", "4", "5", "6", "7", "8", "9">>

Digits == {DigitChars[i] : i \in 1..10}

Whitespace == {" ", "\t"}

LowerLetters == {"a", "b", "c", "i", "m", "n"}

UpperLetters == {"A", "B", "C", "I", "M", "N"}

\* the class [\d./\s] of the pattern at line 31
NumChars == Digits \cup {".", "/"} \cup Whitespace

\* the class \w of the pattern at line 31
WordChars == Digits \cup LowerLetters \cup UpperLetters \cup {"_"}

LowerChar(c) ==
    CASE c = "A" -> "a" [] c = "B" -> "b" [] c = "C" -> "c"
      [] c = "I" -> "i" [] c = "M" -> "m" [] c = "N" -> "n"
      [] OTHER -> c

Lower(s) == [i \in 1..Len(s) |-> LowerChar(s[i])]

Contains(s, c) == \E i \in 1..Len(s) : s[i] = c

RECURSIVE Split(_, _)
Split(s, c) ==
    IF Contains(s, c)
    THEN LET i == CHOOSE k \in 1..Len(s) :
                      s[k] = c /\ \A j \in 1..(k - 1) : s[j] # c
         IN  <<SubSeq(s, 1, i - 1)>> \o Split(SubSeq(s, i + 1, Len(s)), c)
    ELSE <<s>>

RECURSIVE Strip(_)
Strip(s) ==
    IF s = <<>> THEN s
    ELSE IF s[1] \in Whitespace THEN Strip(Tail(s))
    ELSE IF s[Len(s)] \in Whitespace THEN Strip(SubSeq(s, 1, Len(s) - 1))
    ELSE s

\* length of the longest prefix of s made of characters of class
RECURSIVE PrefixLen(_, _)
PrefixLen(s, class) ==
    IF s # <<>> /\ s[1] \in class THEN 1 + PrefixLen(Tail(s), class) ELSE 0

IsDigits(s) == s # <<>> /\ \A i \in 1..Len(s) : s[i] \in Digits

DigitVal(c) == (CHOOSE k \in 1..10 : DigitChars[k] = c) - 1

RECURSIVE NatOf(_)
NatOf(s) ==
    IF s = <<>> THEN 0
    ELSE NatOf(SubSeq(s, 1, Len(s) - 1)) * 10 + DigitVal(s[Len(s)])

RECURSIVE Pow10(_)
Pow10(k) == IF k = 0 THEN 1 ELSE 10 * Pow10(k - 1)

(***************************************************************************)
(* Results of a call that may raise: err names the exception.              *)
(***************************************************************************)
Ok(v) == [err |-> "none", val |-> v]

Raise(e) == [err |-> e, val |-> <<0, 1>>]

\* int(s) at line 23
py_int(s) ==
    LET t == Strip(s)
    IN  IF IsDigits(t) THEN Ok(NatOf(t)) ELSE Raise("ValueError")

\* float(s) at lines 24 and 26
py_float(s) ==
    LET t == Strip(s)
        p == Split(t, ".")
    IN  IF Len(p) = 1 /\ IsDigits(p[1]) THEN Ok(FromInt(NatOf(p[1])))
        ELSE IF /\ Len(p) = 2
                /\ Len(p[1]) + Len(p[2]) > 0
                /\ \A i \in 1..Len(p[1]) : p[1][i] \in Digits
                /\ \A i \in 1..Len(p[2]) : p[2][i] \in Digits
        THEN Ok(Rat(NatOf(p[1] \o p[2]), Pow10(Len(p[2]))))
        ELSE Raise("ValueError")

fraction_to_float(fraction_str) ==
    IF Contains(fraction_str, " ")
    THEN LET parts == Split(fraction_str, " ")
         IN  IF Len(parts) # 2 THEN Raise("ValueError")
             ELSE LET whole == parts[1]
                      pieces == Split(parts[2], "/")
                      ints == [i \in 1..Len(pieces) |-> py_int(pieces[i])]
                  IN  IF \/ Len(pieces) # 2
                         \/ \E i \in 1..Len(pieces) : ints[i].err # "none"
                      THEN Raise("ValueError")
                      ELSE IF py_float(whole).err # "none" THEN Raise("ValueError")
                      ELSE IF ints[2].val = 0 THEN Raise("ZeroDivisionError")
                      ELSE Ok(RAdd(py_float(whole).val, Rat(ints[1].val, ints[2].val)))
    ELSE py_float(fraction_str)

\* re.match(r'([\d./\s]+)(\w*)', s): None, or the two groups
re_match(s) ==
    LET n == PrefixLen(s, NumChars)
        rest == SubSeq(s, n + 1, Len(s))
        u == PrefixLen(rest, WordChars)
    IN  [is_none |-> n = 0, value |-> SubSeq(s, 1, n), unit |-> SubSeq(rest, 1, u)]

\* faulty variant: the unit is compared without lower()
convert_to_inches_case_sensitive(dimensions_str) ==
    LET m == re_match(dimensions_str)
    IN  IF m.is_none THEN Raise("AttributeError")
        ELSE LET value_in_inches == fraction_to_float(m.value)
             IN  IF value_in_inches.err # "none" THEN value_in_inches
                 ELSE IF m.unit = <<"m", "m">>
                 THEN Ok(RDiv(value_in_inches.val, mm_per_inch))
                 ELSE value_in_inches

convert_to_inches(dimensions_str) ==
    LET m == re_match(dimensions_str)
    IN  IF m.is_none THEN Raise("AttributeError")
        ELSE LET value_in_inches == fraction_to_float(m.value)
             IN  IF value_in_inches.err # "none" THEN value_in_inches
                 ELSE IF Lower(m.unit) = <<"m", "m">>
                 THEN Ok(RDiv(value_in_inches.val, mm_per_inch))
                 ELSE value_in_inches

(***************************************************************************)
(* Dimension strings.  A numeric part is written from its structure, so    *)
(* that what the parser reads back can be compared with what was written.  *)
(***************************************************************************)
RECURSIVE ToDigits(_)
ToDigits(n) ==
    IF n < 10 THEN <<DigitChars[n + 1]>>
    ELSE ToDigits(n \div 10) \o <<DigitChars[(n % 10) + 1]>>

FracDigits == {0, 5, 7}

FracSeqs == UNION {[1..k -> FracDigits] : k \in 0..MaxFrac}

\* "<whole>" or "<whole>.<frac digits>"
PlainText(whole, frac) ==
    ToDigits(whole) \o
    (IF frac = <<>> THEN <<>> ELSE <<".">> \o [i \in 1..Len(frac) |-> DigitChars[frac[i] + 1]])

\* "<whole> <num>/<den>"
MixedText(whole, num, den) ==
    ToDigits(whole) \o <<" ">> \o ToDigits(num) \o <<"/">> \o ToDigits(den)

UnitSuffixes ==
    { <<>>, <<"m", "m">>, <<"M", "M">>, <<"m", "M">>, <<"M", "m">>,
      <<"i", "n">>, <<"I", "N">>, <<"m">>, <<"c", "m">>, <<"m", "m", "m">>,
      <<"m", "m", "_">>, <<"m", "m", "2">>, <<"!">> }

NumericParts ==
    {[kind |-> "plain", whole |-> w, frac |-> f, num |-> 0, den |-> 1,
      text |-> PlainText(w, f)] : w \in 0..MaxWhole, f \in FracSeqs}
    \cup
    {[kind |-> "mixed", whole |-> w, frac |-> <<>>, num |-> n, den |-> d,
      text |-> MixedText(w, n, d)] : w \in 0..MaxWhole, n \in 0..MaxNum, d \in 1..MaxDen}

NoCall == [kind |-> "none", whole |-> 0, frac |-> <<>>, num |-> 0, den |-> 1,
           text |-> <<>>, unit |-> <<>>]

NoLayout ==
    [drawer_width_px |-> <<0, 1>>, drawer_height_px |-> <<0, 1>>, cols |-> 0, rows |-> 0,
     start_x_px |-> <<0, 1>>, start_y_px |-> <<0, 1>>]

NoArgs == [drawer_width |-> NoneArg, drawer_height |-> NoneArg]

(***************************************************************************)
(* convert_to_inches on its own: one call on a dimension string N ++ S.    *)
(***************************************************************************)
InitConv ==
    /\ \E n \in NumericParts, u \in UnitSuffixes :
           conv_in = [kind |-> n.kind, whole |-> n.whole, frac |-> n.frac, num |-> n.num,
                      den |-> n.den, text |-> n.text \o u, unit |-> u]
    /\ conv_out = <<>>
    /\ argv = <<>>
    /\ pc = "idle"
    /\ args = NoArgs
    /\ exit_code = <<>>
    /\ error = "none"
    /\ stdout = <<>>
    /\ layout = NoLayout
    /\ x = 0
    /\ y = 0
    /\ dwg = <<>>
    /\ files = <<>>

Convert ==
    /\ pc = "idle"
    /\ conv_out = <<>>
    /\ conv_out' = <<convert_to_inches(conv_in.text)>>
    /\ UNCHANGED <<argv, pc, args, exit_code, error, stdout, layout, x, y, dwg, files,
                   conv_in>>

NextConv == Convert

SpecConv == InitConv /\ [][NextConv]_vars

(***************************************************************************)
(* The command line.  Each option carries one dimension string; argparse   *)
(* converts the strings in the order they are given.                       *)
(***************************************************************************)
InchStrings ==
    {ToDigits(w) \o f : w \in 0..MaxInch, f \in {<<>>, <<" ", "1", "/", "2">>}}
    \cup {<<"1", "6", ".", "5">>, <<"1", "1", ".", "5">>}

MmStrings ==
    { <<"4", "2", "m", "m">>, <<"8", "4", "M", "M">>, <<"4", "1", "m", "m">>,
      <<"1", "0", "0", "m", "m">>, <<"0", "m", "m">> }

OddStrings ==
    { <<"a", "b", "c">>, <<"1", " ", "2">>, <<"1", " ", "1", "/", "0">>,
      <<"1", ".", "2", ".", "3">> }

DimStrings == InchStrings \cup MmStrings \cup OddStrings

Argvs ==
    {<<>>}
    \cup {<<[opt |-> o, val |-> s]>> : o \in {"drawer_width", "drawer_height"}, s \in DimStrings}
    \cup {<<[opt |-> "drawer_width", val |-> s], [opt |-> "drawer_height", val |-> t]>> :
              s \in DimStrings, t \in DimStrings}
    \cup {<<[opt |-> "drawer_height", val |-> t], [opt |-> "drawer_width", val |-> s]>> :
              s \in DimStrings, t \in DimStrings}

Init ==
    /\ argv \in Argvs
    /\ pc = "start"
    /\ args = NoArgs
    /\ exit_code = <<>>
    /\ error = "none"
    /\ stdout = <<>>
    /\ layout = NoLayout
    /\ x = 0
    /\ y = 0
    /\ dwg = <<>>
    /\ files = <<>>
    /\ conv_in = NoCall
    /\ conv_out = <<>>

(***************************************************************************)
(* main, lines 78-96.                                                      *)
(***************************************************************************)
\* the conversions parse_args has made before the first one that raises
Converted == [i \in 1..Len(argv) |-> convert_to_inches(argv[i].val)]

FirstError ==
    IF \E i \in 1..Len(argv) : Converted[i].err # "none"
    THEN Converted[CHOOSE i \in 1..Len(argv) :
                       /\ Converted[i].err # "none"
                       /\ \A j \in 1..(i - 1) : Converted[j].err = "none"].err
    ELSE "none"

ArgValue(opt) ==
    IF \E i \in 1..Len(argv) : argv[i].opt = opt
    THEN Num(Converted[CHOOSE i \in 1..Len(argv) : argv[i].opt = opt].val)
    ELSE NoneArg

\* line 87: argparse turns a ValueError of the type function into its own error
\* (usage message, status 2); any other exception leaves main uncaught (status 1)
ParseArgs ==
    /\ pc = "start"
    /\ IF FirstError = "none"
       THEN /\ args' = [drawer_width |-> ArgValue("drawer_width"),
                        drawer_height |-> ArgValue("drawer_height")]
            /\ pc' = "check"
            /\ UNCHANGED <<exit_code, error>>
       ELSE /\ error' = (IF FirstError = "ValueError" THEN "ArgumentError" ELSE FirstError)
            /\ exit_code' = <<IF FirstError = "ValueError" THEN 2 ELSE 1>>
            /\ pc' = "exit"
            /\ UNCHANGED args
    /\ UNCHANGED <<argv, stdout, layout, x, y, dwg, files, conv_in, conv_out>>

\* truth value of an argument: None and 0.0 are false
Truthy(a) == ~a.is_none /\ a.val[1] # 0

\* faulty variant: one dimension is enough
HaveDimensions_either(a) == Truthy(a.drawer_width) \/ Truthy(a.drawer_height)

\* the condition of line 89
HaveDimensions(a) == Truthy(a.drawer_width) /\ Truthy(a.drawer_height)

\* line 89 taken: the call of lines 90-93 begins
CallCreate ==
    /\ pc = "check"
    /\ HaveDimensions(args)
    /\ pc' = "layout"
    /\ UNCHANGED <<argv, args, exit_code, error, stdout, layout, x, y, dwg, files,
                   conv_in, conv_out>>

\* lines 94-96
MissingDimensions ==
    /\ pc = "check"
    /\ ~HaveDimensions(args)
    /\ stdout' = Append(stdout, [msg |-> "Please provide drawer dimensions in inches.",
                                 cols |-> 0, rows |-> 0])
    /\ exit_code' = <<1>>
    /\ pc' = "exit"
    /\ UNCHANGED <<argv, args, error, layout, x, y, dwg, files, conv_in, conv_out>>

(***************************************************************************)
(* create_gridfinity_baseplate_svg, lines 39-75, with the arguments of     *)
(* lines 90-93.                                                            *)
(***************************************************************************)
top_unit_size_px == mm_to_px(FromInt(top_unit_size_mm))

base_unit_size_px == mm_to_px(base_unit_size_mm)

corner_radius_px == mm_to_px(corner_radius_mm)

stroke_width_px == mm_to_px(hairline_stroke_mm)

\* lines 42-43
DrawerPx(inch) == mm_to_px(RMul(inch, mm_per_inch))

\* faulty variant: the count is not clamped to 1
GridCount_unclamped(size_px) == RFloorDiv(size_px, top_unit_size_px)

\* faulty variant: a partially fitting cell is kept (the quotient is rounded up)
GridCount_ceil(size_px) ==
    Max(-RFloorDiv(RSub(<<0, 1>>, size_px), top_unit_size_px), 1)

\* lines 45-46
GridCount(size_px) == Max(RFloorDiv(size_px, top_unit_size_px), 1)

\* faulty variant: a negative offset is clamped to 0
StartPx_clamped(size_px, count) ==
    LET o == RDiv(RSub(size_px, RMul(FromInt(count), top_unit_size_px)), FromInt(2))
    IN  IF o[1] < 0 THEN <<0, 1>> ELSE o

\* lines 51-52
StartPx(size_px, count) ==
    RDiv(RSub(size_px, RMul(FromInt(count), top_unit_size_px)), FromInt(2))

\* faulty variant: the whole gap is put before the cell
CellPos_unhalved(start_px, i) ==
    RAdd(RAdd(start_px, RMul(FromInt(i), top_unit_size_px)),
         RSub(top_unit_size_px, base_unit_size_px))

\* lines 68-69
CellPos(start_px, i) ==
    RAdd(RAdd(start_px, RMul(FromInt(i), top_unit_size_px)),
         RDiv(RSub(top_unit_size_px, base_unit_size_px), FromInt(2)))

ComputeLayout ==
    /\ pc = "layout"
    /\ LET w == DrawerPx(args.drawer_width.val)
           h == DrawerPx(args.drawer_height.val)
           c == GridCount(w)
           r == GridCount(h)
       IN  layout' = [drawer_width_px |-> w, drawer_height_px |-> h, cols |-> c, rows |-> r,
                      start_x_px |-> StartPx(w, c), start_y_px |-> StartPx(h, r)]
    /\ pc' = "log"
    /\ UNCHANGED <<argv, args, exit_code, error, stdout, x, y, dwg, files, conv_in, conv_out>>

\* faulty variant: the line is not printed
LogLayout_silent ==
    /\ pc = "log"
    /\ pc' = "border"
    /\ UNCHANGED <<argv, args, exit_code, error, stdout, layout, x, y, dwg, files,
                   conv_in, conv_out>>

\* lines 54-55
LogLayout ==
    /\ pc = "log"
    /\ stdout' = Append(stdout, [msg |-> "Drawer mode", cols |-> layout.cols,
                                 rows |-> layout.rows])
    /\ pc' = "border"
    /\ UNCHANGED <<argv, args, exit_code, error, layout, x, y, dwg, files, conv_in, conv_out>>

\* a rect element; what, col and row record which statement added it
Rect(what, col, row, px, py, w, h) ==
    [what |-> what, col |-> col, row |-> row, insert |-> <<px, py>>, size |-> <<w, h>>,
     rx |-> corner_radius_px, ry |-> corner_radius_px, stroke |-> "black", fill |-> "none",
     stroke_width |-> stroke_width_px]

\* lines 58-63
DrawBorder ==
    /\ pc = "border"
    /\ dwg' = Append(dwg, Rect("border", 0, 0, <<0, 1>>, <<0, 1>>,
                               layout.drawer_width_px, layout.drawer_height_px))
    /\ x' = 0
    /\ y' = 0
    /\ pc' = "cells"
    /\ UNCHANGED <<argv, args, exit_code, error, stdout, layout, files, conv_in, conv_out>>

\* faulty variant: the range is one too long
InRange_inclusive(i, n) == i <= n

\* range(n) still has the index i to give
InRange(i, n) == i < n

\* lines 67-73: one pass of the inner loop body
DrawCell ==
    /\ pc = "cells"
    /\ InRange(x, layout.cols)
    /\ InRange(y, layout.rows)
    /\ dwg' = Append(dwg, Rect("cell", x, y, CellPos(layout.start_x_px, x),
                               CellPos(layout.start_y_px, y),
                               base_unit_size_px, base_unit_size_px))
    /\ y' = y + 1
    /\ UNCHANGED <<argv, pc, args, exit_code, error, stdout, layout, x, files,
                   conv_in, conv_out>>

\* lines 66-67: the inner loop is exhausted, the outer loop advances
NextColumn ==
    /\ pc = "cells"
    /\ InRange(x, layout.cols)
    /\ ~InRange(y, layout.rows)
    /\ x' = x + 1
    /\ y' = 0
    /\ UNCHANGED <<argv, pc, args, exit_code, error, stdout, layout, dwg, files,
                   conv_in, conv_out>>

\* line 75, reached when the outer loop is exhausted
Save ==
    /\ pc = "cells"
    /\ ~InRange(x, layout.cols)
    /\ files' = Append(files, dwg)
    /\ pc' = "saved"
    /\ UNCHANGED <<argv, args, exit_code, error, stdout, layout, x, y, dwg, conv_in, conv_out>>

\* main returns and the interpreter exits with status 0
Return ==
    /\ pc = "saved"
    /\ exit_code' = <<0>>
    /\ pc' = "exit"
    /\ UNCHANGED <<argv, args, error, stdout, layout, x, y, dwg, files, conv_in, conv_out>>

Next ==
    \/ ParseArgs
    \/ CallCreate
    \/ MissingDimensions
    \/ ComputeLayout
    \/ LogLayout
    \/ DrawBorder
    \/ DrawCell
    \/ NextColumn
    \/ Save
    \/ Return

Spec == Init /\ [][Next]_vars

(***************************************************************************)
(* Properties.                                                             *)
(***************************************************************************)
Zero == <<0, 1>>

Times(k, a) == RMul(FromInt(k), a)

\* lines 42-52 have run in this state
LayoutDone == pc \in {"log", "border", "cells", "saved"} \/ (pc = "exit" /\ layout # NoLayout)

\* the run has gone through dwg.save() and returned
Completed == pc = "exit" /\ exit_code = <<0>>

Cells == {i \in 1..Len(dwg) : dwg[i].what = "cell"}

\* floor-and-clamp stated for one axis without the division
CountFits(size_px, count) ==
    /\ count >= 1
    /\ RLeq(top_unit_size_px, size_px) =>
           /\ RLeq(Times(count, top_unit_size_px), size_px)
           /\ RLess(size_px, Times(count + 1, top_unit_size_px))
    /\ RLess(size_px, top_unit_size_px) => count = 1

\* C1: for every positive drawer size the column and row counts are the floor of
\* size / pitch clamped to at least 1: each is >= 1, is 1 when the drawer is
\* smaller than one pitch, and otherwise count * pitch <= size < (count + 1) * pitch.
C1_GridCount ==
    LayoutDone =>
        /\ CountFits(layout.drawer_width_px, layout.cols)
        /\ CountFits(layout.drawer_height_px, layout.rows)

C1_Witness ==
    /\ LayoutDone
    /\ layout.cols = 9
    /\ layout.rows = 1
    /\ RLess(layout.drawer_height_px, top_unit_size_px)

\* C2: on both axes twice the centering offset plus the occupied span equals the
\* drawer size, also when the drawer is smaller than one pitch and the offset is
\* negative.
C2_Centering ==
    LayoutDone =>
        /\ RAdd(Times(2, layout.start_x_px), Times(layout.cols, top_unit_size_px))
               = layout.drawer_width_px
        /\ RAdd(Times(2, layout.start_y_px), Times(layout.rows, top_unit_size_px))
               = layout.drawer_height_px

C2_Witness ==
    /\ LayoutDone
    /\ RLess(layout.start_x_px, Zero)
    /\ RLess(Zero, layout.start_y_px)
    /\ layout.rows = 2

\* C3: a completed run has added exactly one cell for every (column, row) pair
\* of the grid and no other cell, so columns * rows cells and, with the border,
\* columns * rows + 1 shapes.
C3_ShapeCount ==
    Completed =>
        /\ Cardinality(Cells) = layout.cols * layout.rows
        /\ \A c \in 0..(layout.cols - 1), r \in 0..(layout.rows - 1) :
               Cardinality({i \in Cells : dwg[i].col = c /\ dwg[i].row = r}) = 1
        /\ \A i \in Cells : /\ dwg[i].col \in 0..(layout.cols - 1)
                            /\ dwg[i].row \in 0..(layout.rows - 1)
        /\ Len(dwg) = layout.cols * layout.rows + 1

C3_Witness ==
    /\ Completed
    /\ layout.cols = 3
    /\ layout.rows = 4
    /\ Cardinality(Cells) = 12

\* the gap between a cell and the edges of its pitch-sized slot on one axis
MarginBefore(start_px, i, pos) == RSub(pos, RAdd(start_px, Times(i, top_unit_size_px)))

MarginAfter(start_px, i, pos, size) ==
    RSub(RAdd(start_px, Times(i + 1, top_unit_size_px)), RAdd(pos, size))

HalfGap == RDiv(RSub(top_unit_size_px, base_unit_size_px), FromInt(2))

\* C8: every cell is cellSize by cellSize and sits at centering offset + index *
\* pitch + (pitch - cellSize) / 2 on each axis, so its margins inside its own
\* slot are equal left and right, and top and bottom.
C8_CellCentered ==
    \A i \in Cells :
        LET e == dwg[i]
        IN  /\ e.size = <<base_unit_size_px, base_unit_size_px>>
            /\ MarginBefore(layout.start_x_px, e.col, e.insert[1]) = HalfGap
            /\ MarginBefore(layout.start_y_px, e.row, e.insert[2]) = HalfGap
            /\ MarginBefore(layout.start_x_px, e.col, e.insert[1])
                   = MarginAfter(layout.start_x_px, e.col, e.insert[1], e.size[1])
            /\ MarginBefore(layout.start_y_px, e.row, e.insert[2])
                   = MarginAfter(layout.start_y_px, e.row, e.insert[2], e.size[2])

C8_Witness ==
    \E i \in Cells : dwg[i].col = 8 /\ dwg[i].row = 5

\* a cell stays within the border on one axis
Within(pos, size, drawer_px) == RLeq(Zero, pos) /\ RLeq(RAdd(pos, size), drawer_px)

Disjoint(a, b) ==
    \/ RLeq(RAdd(a.insert[1], a.size[1]), b.insert[1])
    \/ RLeq(RAdd(b.insert[1], b.size[1]), a.insert[1])
    \/ RLeq(RAdd(a.insert[2], a.size[2]), b.insert[2])
    \/ RLeq(RAdd(b.insert[2], b.size[2]), a.insert[2])

OffsetInHalfPitch(o) == RLeq(Zero, o) /\ RLess(Times(2, o), top_unit_size_px)

\* C10: when the drawer is at least one pitch wide and high (the cell being no
\* larger than the pitch), both centering offsets lie in [0, pitch / 2), every
\* cell lies inside the border and distinct cells do not overlap; on either axis
\* a cell leaves the border only if the drawer is smaller than one pitch there.
C10_CellsInsideBorder ==
    LayoutDone =>
        /\ (/\ RLeq(top_unit_size_px, layout.drawer_width_px)
            /\ RLeq(top_unit_size_px, layout.drawer_height_px)
            /\ RLeq(base_unit_size_px, top_unit_size_px)) =>
               /\ OffsetInHalfPitch(layout.start_x_px)
               /\ OffsetInHalfPitch(layout.start_y_px)
               /\ \A i \in Cells :
                      /\ Within(dwg[i].insert[1], dwg[i].size[1], layout.drawer_width_px)
                      /\ Within(dwg[i].insert[2], dwg[i].size[2], layout.drawer_height_px)
               /\ pc = "saved" =>
                      \A i \in Cells, j \in Cells : i < j => Disjoint(dwg[i], dwg[j])
        /\ \A i \in Cells :
               /\ ~Within(dwg[i].insert[1], dwg[i].size[1], layout.drawer_width_px)
                      => RLess(layout.drawer_width_px, top_unit_size_px)
               /\ ~Within(dwg[i].insert[2], dwg[i].size[2], layout.drawer_height_px)
                      => RLess(layout.drawer_height_px, top_unit_size_px)

C10_Witness ==
    /\ pc = "saved"
    /\ layout.cols = 4
    /\ layout.rows = 2
    /\ RLess(Zero, layout.start_x_px)
    /\ Cardinality(Cells) = 8

\* an option the command line does not give
Absent(opt) == \A i \in 1..Len(argv) : argv[i].opt # opt

SomeAbsent == Absent("drawer_width") \/ Absent("drawer_height")

\* nothing of create_gridfinity_baseplate_svg has happened
NothingProduced ==
    /\ pc \notin {"layout", "log", "border", "cells", "saved"}
    /\ layout = NoLayout
    /\ dwg = <<>>
    /\ files = <<>>

MissingMessage ==
    \E i \in 1..Len(stdout) : stdout[i].msg = "Please provide drawer dimensions in inches."

\* C4 as stated: whenever --drawer_width or --drawer_height is absent the run
\* prints a message and exits with status 1, having produced nothing.
C4_AsStated ==
    SomeAbsent => /\ NothingProduced
                  /\ pc = "exit" => exit_code = <<1>>

\* C4: when --drawer_width or --drawer_height is absent no layout is computed,
\* no shape is emitted and no file is written; the run prints the message and
\* exits with status 1 if every dimension string that is given converts, and
\* otherwise ends in argument parsing with a non-zero status and no message.
C4_MissingArgument ==
    SomeAbsent =>
        /\ NothingProduced
        /\ pc = "exit" =>
               IF FirstError = "none"
               THEN exit_code = <<1>> /\ MissingMessage /\ error = "none"
               ELSE exit_code \in {<<1>>, <<2>>} /\ stdout = <<>> /\ error # "none"

C4_Witness ==
    /\ Len(argv) = 1
    /\ Absent("drawer_height")
    /\ FirstError = "none"
    /\ pc = "exit"
    /\ exit_code = <<1>>
    /\ MissingMessage

BothGiven == ~Absent("drawer_width") /\ ~Absent("drawer_height")

\* C5: whenever both options are given and both strings convert to a number,
\* whatever the number, the run computes the layout, writes the file and exits
\* with status 0, never taking the missing-argument exit.
C5_PresentArgumentsRun ==
    (BothGiven /\ FirstError = "none" /\ pc = "exit") =>
        /\ exit_code = <<0>>
        /\ Len(files) = 1
        /\ ~MissingMessage

(***************************************************************************)
(* convert_to_inches against the value its input was written from.         *)
(***************************************************************************)
RECURSIVE FracValue(_)
FracValue(frac) ==
    IF frac = <<>> THEN Zero
    ELSE RDiv(RAdd(FromInt(frac[1]), FracValue(Tail(frac))), FromInt(10))

NumericValue(c) ==
    IF c.kind = "mixed" THEN RAdd(FromInt(c.whole), Rat(c.num, c.den))
    ELSE RAdd(FromInt(c.whole), FracValue(c.frac))

IsMillimetres(u) == Len(u) = 2 /\ \A i \in 1..2 : u[i] \in {"m", "M"}

\* C6: for a numeric part N (plain decimal or mixed number) followed by a unit
\* suffix S, convert_to_inches returns value(N) / 25.4 when S is "mm" in any
\* letter case and value(N) unchanged for every other suffix.
C6_ConvertToInches ==
    conv_out # <<>> =>
        /\ conv_out[1].err = "none"
        /\ conv_out[1].val = IF IsMillimetres(conv_in.unit)
                             THEN RDiv(Times(10, NumericValue(conv_in)), FromInt(254))
                             ELSE NumericValue(conv_in)

C6_Witness ==
    /\ conv_out # <<>>
    /\ conv_in.text = <<"1", "0", " ", "1", "/", "2", "M", "M">>
    /\ conv_out[1].val = <<105, 254>>

(***************************************************************************)
(* Malformed dimension strings, stated on the text alone.                  *)
(***************************************************************************)
\* no leading number: the text does not begin with a digit or a decimal point
NoLeadingNumber(s) == s = <<>> \/ s[1] \notin (Digits \cup {"."})

\* a space follows the integer but what follows is not <digits>/<digits>
BadFraction(s) ==
    /\ Contains(s, " ")
    /\ LET after == Split(s, " ")[2]
           p == Split(SubSeq(after, 1, PrefixLen(after, Digits \cup {"/"})), "/")
       IN  ~(Len(p) = 2 /\ IsDigits(p[1]) /\ IsDigits(p[2]))

Malformed(s) == NoLeadingNumber(s) \/ BadFraction(s)

\* the first string argparse converts is malformed
FirstMalformed == Len(argv) > 0 /\ Malformed(argv[1].val)

\* C7: every malformed dimension string fails with the one error kind that
\* argparse reports as an argument error, with a non-zero exit, before any
\* layout is computed or file written.
C7_SingleParseError ==
    FirstMalformed =>
        /\ NothingProduced
        /\ pc = "exit" => /\ error = "ArgumentError"
                          /\ exit_code = <<2>>

\* both options given, both strings convert, both numbers positive
ValidArgs ==
    /\ BothGiven
    /\ FirstError = "none"
    /\ \A i \in 1..Len(argv) : RLess(Zero, Converted[i].val)

Logged == \E i \in 1..Len(stdout) : stdout[i].msg = "Drawer mode"

Borders == {i \in 1..Len(dwg) : dwg[i].what = "border"}

\* what has happened so far happened in the order parse, layout, log, border, cells, save
InOrder ==
    /\ layout # NoLayout => pc # "start" /\ ~args.drawer_width.is_none
                                          /\ ~args.drawer_height.is_none
    /\ Logged => /\ LayoutDone
                 /\ Len(stdout) = 1
                 /\ stdout[1].cols = layout.cols
                 /\ stdout[1].rows = layout.rows
    /\ dwg # <<>> => /\ Logged
                     /\ Borders = {1}
                     /\ dwg[1].insert = <<Zero, Zero>>
                     /\ dwg[1].size = <<layout.drawer_width_px, layout.drawer_height_px>>
                     /\ files = <<>> \/ files = <<dwg>>
    /\ files # <<>> => /\ Len(files) = 1
                       /\ pc \in {"saved", "exit"}
                       /\ Len(files[1]) = layout.cols * layout.rows + 1
                       /\ Cardinality(Cells) = layout.cols * layout.rows
    /\ (pc = "exit" /\ ValidArgs) => exit_code = <<0>> /\ files # <<>>

PcOrder == <<"start", "check", "layout", "log", "border", "cells", "saved", "exit">>

PcIndex(p) == CHOOSE i \in 1..Len(PcOrder) : PcOrder[i] = p

Finished == pc = "exit" /\ exit_code = <<0>> /\ Len(files) = 1

\* a step moves to a later statement, or stays in the loops and moves to a later
\* (column, row) of the bounded iteration space
StepsForward ==
    \/ PcIndex(pc') > PcIndex(pc)
    \/ /\ pc = "cells" /\ pc' = "cells"
       /\ x' <= layout.cols /\ y' <= layout.rows
       /\ x' > x \/ (x' = x /\ y' > y)

====
